---- MODULE Spec2Model ----
(***************************************************************************)
(* A model of go1.24_demo.go: the main function and the demo functions it  *)
(* calls, the finalizer goroutine set up by DemoFinalizers, the deferred   *)
(* calls of DemoDirectoryLimitedFS, the type assertions of the encoding    *)
(* demos, demoStruct.AppendText and the "seq" template helper with the     *)
(* template that ranges over it.                                           *)
(*                                                                         *)
(* Byte slices and template output are sequences of one-character strings; *)
(* a printed line is a TLA+ string.  Machine integers are IntBits wide and *)
(* wrap modulo 2^IntBits.                                                  *)
(***************************************************************************)
EXTENDS Integers, Sequences, FiniteSets, TLC

VARIABLES
    pc,          \* main goroutine: the statement it is about to execute
    out,         \* standard output: the lines printed so far, in order
    calls,       \* the demo functions main has invoked, in order
    exitCode,    \* -1 while the process runs, then its exit code
    branch,      \* demo name -> the branch the demo took ("" before it ran)
    holder,      \* DemoFinalizers' local: "unset", "obj" or "nil"
    finalizer,   \* "none", "set" (SetFinalizer done) or "ran"
    finRuns,     \* how many times the finalizer function has run
    defers,      \* DemoDirectoryLimitedFS: stack of deferred calls
    fsEvents,    \* filesystem calls made by DemoDirectoryLimitedFS, in order
    rStart,      \* seq helper: argument start of the last call
    rEnd,        \* seq helper: argument end of the last call
    rOutcome,    \* last template execution: "none", "ok", "error" or "oom"
    tplOutput,   \* bytes.Buffer the template was executed into
    seqIters,    \* iterations the seq loop made in the last call
    seqCap,      \* value of the capacity expression end-start+1 in the last call
    memo,        \* an earlier template execution, remembered for comparison
    aDst,        \* AppendText: the dst argument of the last call
    aValue,      \* AppendText: the receiver's Value
    aResult      \* AppendText: the returned slice

vars == <<pc, out, calls, exitCode, branch, holder, finalizer, finRuns, defers,
          fsEvents, rStart, rEnd, rOutcome, tplOutput, seqIters, seqCap, memo,
          aDst, aValue, aResult>>

mainVars == <<pc, out, calls, exitCode, branch, holder, finalizer, finRuns,
              defers, fsEvents>>
renderVars == <<rStart, rEnd, rOutcome, tplOutput, seqIters, seqCap>>
appendVars == <<aDst, aValue, aResult>>

(***************************************************************************)
(* Bounds of the model.                                                    *)
(***************************************************************************)
IntBits == 4          \* width of the machine integer (Go's int is 64 bits)
ProbeMax == 1         \* the determinism harness calls seq on -ProbeMax..ProbeMax and the extremes
DstMaxLen == 2        \* longest dst handed to AppendText by the harness
ValMax == 12          \* the harness gives demoStruct values in -ValMax..ValMax

(***************************************************************************)
(* Machine integers.                                                       *)
(***************************************************************************)
IntSize == 2 ^ IntBits
IntMax == (IntSize \div 2) - 1
IntMin == -(IntSize \div 2)
IntRange == IntMin..IntMax

\* The value an int holds after an arithmetic result x (two's complement wrap).
Wrap(x) == ((x - IntMin) % IntSize) + IntMin

\* More elements than the address space holds: the allocation that fails.
MemLimit == IntSize + 1

(***************************************************************************)
(* Text.                                                                   *)
(***************************************************************************)
Digit(d) ==
    CASE d = 0 -> "0" [] d = 1 -> "1" [] d = 2 -> "2" [] d = 3 -> "3"
      [] d = 4 -> "4" [] d = 5 -> "5" [] d = 6 -> "6" [] d = 7 -> "7"
      [] d = 8 -> "8" [] d = 9 -> "9"

RECURSIVE NatChars(_)
NatChars(n) ==
    IF n < 10 THEN <<Digit(n)>>
    ELSE Append(NatChars(n \div 10), Digit(n % 10))

\* The decimal text of an integer, as %d and {{$i}} write it.
Itoa(n) == IF n < 0 THEN <<"-">> \o NatChars(-n) ELSE NatChars(n)

\* string(buf): the string made of a byte sequence.
RECURSIVE StrOf(_)
StrOf(s) == IF s = <<>> THEN "" ELSE s[1] \o StrOf(Tail(s))

(***************************************************************************)
(* The "seq" helper of the template's FuncMap.                             *)
(***************************************************************************)
\* end-start+1, as the machine computes it.
SeqCapacity(start, end) == Wrap(Wrap(end - start) + 1)

\* for i := start; i <= end; i++ { s = append(s, i) }
\* The result records how the loop ended: "ok" with the slice, or "exhausted"
\* when append can allocate no more.
RECURSIVE SeqLoop(_, _, _)
SeqLoop(i, end, s) ==
    IF ~(i <= end) THEN [how |-> "ok", s |-> s, iters |-> Len(s)]
    ELSE IF Len(s) >= MemLimit THEN [how |-> "exhausted", s |-> s, iters |-> Len(s)]
    ELSE SeqLoop(Wrap(i + 1), end, Append(s, i))

\* make([]int, 0, end-start+1) panics when the capacity is negative.
SeqCall(start, end) ==
    IF SeqCapacity(start, end) < 0
    THEN [how |-> "panic", s |-> <<>>, iters |-> 0]
    ELSE SeqLoop(start, end, <<>>)

(***************************************************************************)
(* The template `Numbers: {{range $i := seq A B}}{{$i}} {{end}}`.          *)
(***************************************************************************)
TplPrefix == <<"N", "u", "m", "b", "e", "r", "s", ":", " ">>
TplSeparator == <<" ">>

\* {{range $i := ...}}{{$i}} {{end}} over the slice s, written after buf.
RECURSIVE RangeWrite(_, _)
RangeWrite(buf, s) ==
    IF s = <<>> THEN buf
    ELSE RangeWrite(buf \o Itoa(s[1]) \o TplSeparator, Tail(s))

\* var tplOutput bytes.Buffer: a fresh, empty buffer for every execution.
TplBufferShared == tplOutput
TplBuffer == <<>>

\* tmpl.Execute(&tplOutput, nil): the text node is written first; a panic in
\* seq is recovered by the template and returned as an error; `exhaust` is
\* what running out of memory does to the process ("oom": a fatal error,
\* "error": a recovered panic of append).
Execute(buf, start, end, exhaust) ==
    LET r == SeqCall(start, end) IN
    CASE r.how = "panic" ->
           [outcome |-> "error", buf |-> buf \o TplPrefix, iters |-> r.iters]
      [] r.how = "exhausted" ->
           [outcome |-> exhaust, buf |-> buf \o TplPrefix, iters |-> r.iters]
      [] r.how = "ok" ->
           [outcome |-> "ok", buf |-> RangeWrite(buf \o TplPrefix, r.s),
            iters |-> r.iters]

ExhaustOutcomes == {"oom", "error"}

\* The primed template variables after executing the template on (start, end).
Rendered(start, end, exhaust) ==
    LET e == Execute(TplBuffer, start, end, exhaust) IN
    /\ rStart' = start
    /\ rEnd' = end
    /\ rOutcome' = e.outcome
    /\ tplOutput' = e.buf
    /\ seqIters' = e.iters
    /\ seqCap' = SeqCapacity(start, end)

\* What DemoTextTemplate prints for an execution.
TemplateLine(outcome, buf) ==
    IF outcome = "ok" THEN "Template output: " \o StrOf(buf)
    ELSE "Error executing template:"

(***************************************************************************)
(* demoStruct and the type assertions.                                     *)
(***************************************************************************)
StructPrefix == <<"d", "e", "m", "o", "S", "t", "r", "u", "c", "t", "(">>
StructSuffix == <<")">>

\* func (d demoStruct) AppendText(dst []byte) []byte
AppendTextOverwrite(value, dst) == StructPrefix \o Itoa(value) \o StructSuffix
AppendText(value, dst) == dst \o StructPrefix \o Itoa(value) \o StructSuffix

\* The interface every demo asserts: interface{ AppendText([]byte) []byte }.
AssertedIface ==
    {[name |-> "AppendText", params |-> <<"[]byte">>, results |-> <<"[]byte">>]}

\* encoding.TextAppender, the interface the comments name:
\* AppendText(b []byte) ([]byte, error).
TextAppender ==
    {[name |-> "AppendText", params |-> <<"[]byte">>,
      results |-> <<"[]byte", "error">>]}

Stringer == {[name |-> "String", params |-> <<>>, results |-> <<"string">>]}

\* The methods of the values the demos assert on.
MethodSet(type) ==
    IF type = "demoStruct" THEN AssertedIface
    ELSE TextAppender \cup Stringer

\* v.(I) succeeds when every method of I is a method of v with the same signature.
Implements(type, iface) == iface \subseteq MethodSet(type)

AssertBranch(type) ==
    IF Implements(type, AssertedIface) THEN "appender" ELSE "fallback"

(***************************************************************************)
(* Program constants.                                                      *)
(***************************************************************************)
HolderValue == 42
DemoStructValue == 123
SeqStart == 1
SeqEnd == 5

\* The demo functions in the order main calls them.
MainOrder ==
    <<"demoGenericTypeAlias", "DemoFinalizers", "DemoCryptoPackages",
      "DemoDirectoryLimitedFS", "DemoBytesAndStringsIterators",
      "DemoEncodingAppend", "DemoNetipEncoding", "DemoRegexpEncoding",
      "DemoRuntimeGOROOT", "DemoTextTemplate", "DemoMathBigEncoding",
      "DemoMathRand", "DemoSyncMap", "DemoSlog", "DemoTimeEncoding",
      "DemoSynctest", "DemoGoTypesIterators", "DemoMaphashComparable">>

Demos == {MainOrder[k] : k \in 1..Len(MainOrder)}

OpeningBanner == "=== Go 1.24 Demo ==="
ClosingBanner == "=== Go 1.24 Demo End ==="
FinalizerLine == "Finalizer called for Holder with value: " \o StrOf(Itoa(HolderValue))

(***************************************************************************)
(* Steps of the main goroutine.  Running == the process has not exited.    *)
(***************************************************************************)
Running == exitCode = -1

\* fmt.Println of each of `lines`, in order.
Println(lines) == out' = out \o lines

\* main moves from statement `from` to statement `to`.
Goto(from, to) == Running /\ pc = from /\ pc' = to

\* The first statement of demo function `name` runs: main has called it.
Enter(name) == calls' = Append(calls, name)

Took(name, b) == branch' = [branch EXCEPT ![name] = b]

MainBanner ==
    /\ Goto("main", "demoGenericTypeAlias")
    /\ Println(<<OpeningBanner>>)
    /\ UNCHANGED <<calls, exitCode, branch, holder, finalizer, finRuns, defers,
                   fsEvents, renderVars, memo, appendVars>>

demoGenericTypeAlias ==
    /\ Goto("demoGenericTypeAlias", "cgo")
    /\ Enter("demoGenericTypeAlias")
    /\ Println(<<"Generic Type Alias (MySlice[int]): [1 2 3 4 5]">>)
    /\ UNCHANGED <<exitCode, branch, holder, finalizer, finRuns, defers,
                   fsEvents, renderVars, memo, appendVars>>

MainCgoLine ==
    /\ Goto("cgo", "DemoFinalizers")
    /\ Println(<<"CGO Improvements Demo: Not implemented">>)
    /\ UNCHANGED <<calls, exitCode, branch, holder, finalizer, finRuns, defers,
                   fsEvents, renderVars, memo, appendVars>>

(***************************************************************************)
(* DemoFinalizers and the finalizer goroutine.                             *)
(***************************************************************************)
\* holder := &Holder{Value: 42}
FinNew ==
    /\ Goto("DemoFinalizers", "fin_set")
    /\ Enter("DemoFinalizers")
    /\ holder' = "obj"
    /\ UNCHANGED <<out, exitCode, branch, finalizer, finRuns, defers, fsEvents,
                   renderVars, memo, appendVars>>

\* runtime.SetFinalizer(holder, func(h *Holder) {...})
FinSetFinalizer ==
    /\ Goto("fin_set", "fin_nil")
    /\ finalizer' = "set"
    /\ UNCHANGED <<out, calls, exitCode, branch, holder, finRuns, defers,
                   fsEvents, renderVars, memo, appendVars>>

\* holder = nil
FinDropRef ==
    /\ Goto("fin_nil", "fin_gc")
    /\ holder' = "nil"
    /\ UNCHANGED <<out, calls, exitCode, branch, finalizer, finRuns, defers,
                   fsEvents, renderVars, memo, appendVars>>

\* runtime.GC(): returns when the collection is done; it waits for no finalizer.
FinGC ==
    /\ Goto("fin_gc", "fin_sleep")
    /\ UNCHANGED <<out, calls, exitCode, branch, holder, finalizer, finRuns,
                   defers, fsEvents, renderVars, memo, appendVars>>

\* time.Sleep(100 * time.Millisecond): returns whether or not the finalizer ran.
FinSleep ==
    /\ Goto("fin_sleep", "DemoCryptoPackages")
    /\ UNCHANGED <<out, calls, exitCode, branch, holder, finalizer, finRuns,
                   defers, fsEvents, renderVars, memo, appendVars>>

\* The object may be finalized once the program can no longer reach it.
FinalizableEarly == finalizer = "set"
Finalizable == finalizer = "set" /\ holder = "nil"

\* The runtime's finalizer goroutine runs the function, at most once per
\* SetFinalizer, at some time while the process is alive, or never.
RunFinalizer ==
    /\ Running
    /\ Finalizable
    /\ finalizer' = "ran"
    /\ finRuns' = finRuns + 1
    /\ Println(<<FinalizerLine>>)
    /\ UNCHANGED <<pc, calls, exitCode, branch, holder, defers, fsEvents,
                   renderVars, memo, appendVars>>

(***************************************************************************)
(* DemoCryptoPackages.                                                     *)
(***************************************************************************)
CryptoLines(ok) ==
    IF ok THEN <<"Derived key (PBKDF2):", "SHA3-256 digest:">>
    ELSE <<"PBKDF2 error:">>

\* Where main continues when DemoCryptoPackages returns: after a PBKDF2 error
\* the function only prints and returns, so main goes on in both cases.
CryptoNextAbort(ok) == IF ok THEN "DemoDirectoryLimitedFS" ELSE "return"
CryptoNext(ok) == "DemoDirectoryLimitedFS"

DemoCryptoPackages ==
    \E ok \in BOOLEAN :
        /\ Running /\ pc = "DemoCryptoPackages"
        /\ pc' = CryptoNext(ok)
        /\ Enter("DemoCryptoPackages")
        /\ Took("DemoCryptoPackages", IF ok THEN "ok" ELSE "error")
        /\ Println(CryptoLines(ok))
        /\ UNCHANGED <<exitCode, holder, finalizer, finRuns, defers, fsEvents,
                       renderVars, memo, appendVars>>

(***************************************************************************)
(* DemoDirectoryLimitedFS.                                                 *)
(***************************************************************************)
\* tempDir, err := os.MkdirTemp(...); on success defer os.RemoveAll(tempDir)
FsMkdirTemp ==
    \E ok \in BOOLEAN :
        /\ Goto("DemoDirectoryLimitedFS", IF ok THEN "fs_write" ELSE "fs_return")
        /\ Enter("DemoDirectoryLimitedFS")
        /\ IF ok
           THEN /\ fsEvents' = Append(fsEvents, "MkdirTemp")
                /\ defers' = Append(defers, "RemoveAll")
                /\ UNCHANGED <<out, branch>>
           ELSE /\ Println(<<"Error creating temp directory:">>)
                /\ Took("DemoDirectoryLimitedFS", "mkdir_error")
                /\ UNCHANGED <<fsEvents, defers>>
        /\ UNCHANGED <<exitCode, holder, finalizer, finRuns, renderVars, memo,
                       appendVars>>

\* os.WriteFile(filePath, ...)
FsWriteFile ==
    \E ok \in BOOLEAN :
        /\ Goto("fs_write", IF ok THEN "fs_open" ELSE "fs_return")
        /\ IF ok
           THEN /\ fsEvents' = Append(fsEvents, "WriteFile")
                /\ UNCHANGED <<out, branch>>
           ELSE /\ Println(<<"Error writing file:">>)
                /\ Took("DemoDirectoryLimitedFS", "write_error")
                /\ UNCHANGED fsEvents
        /\ UNCHANGED <<calls, exitCode, holder, finalizer, finRuns, defers,
                       renderVars, memo, appendVars>>

\* root, err := os.Open(tempDir); on success defer root.Close()
FsOpen ==
    \E ok \in BOOLEAN :
        /\ Goto("fs_open", IF ok THEN "fs_readdir" ELSE "fs_return")
        /\ IF ok
           THEN /\ fsEvents' = Append(fsEvents, "Open")
                /\ defers' = Append(defers, "Close")
                /\ UNCHANGED <<out, branch>>
           ELSE /\ Println(<<"Error opening directory:">>)
                /\ Took("DemoDirectoryLimitedFS", "open_error")
                /\ UNCHANGED <<fsEvents, defers>>
        /\ UNCHANGED <<calls, exitCode, holder, finalizer, finRuns, renderVars,
                       memo, appendVars>>

\* entries, err := root.Readdir(0), then the listing is printed.
FsReaddir ==
    \E ok \in BOOLEAN :
        /\ Goto("fs_readdir", "fs_return")
        /\ IF ok
           THEN /\ Println(<<"Files in limited FS:", " - example.txt">>)
                /\ Took("DemoDirectoryLimitedFS", "ok")
           ELSE /\ Println(<<"Error reading directory:">>)
                /\ Took("DemoDirectoryLimitedFS", "readdir_error")
        /\ UNCHANGED <<calls, exitCode, holder, finalizer, finRuns, defers,
                       fsEvents, renderVars, memo, appendVars>>

\* The deferred call that runs next when the function returns: the last one
\* deferred.
NextDeferredFifo == CHOOSE k \in 1..Len(defers) : \A j \in 1..Len(defers) : k <= j
NextDeferred == Len(defers)

\* The function returns: its deferred calls run one by one, then main goes on.
FsReturn ==
    /\ Running /\ pc = "fs_return"
    /\ IF defers = <<>>
       THEN /\ pc' = "DemoBytesAndStringsIterators"
            /\ UNCHANGED <<defers, fsEvents>>
       ELSE /\ fsEvents' = Append(fsEvents, defers[NextDeferred])
            /\ defers' = [k \in 1..(Len(defers) - 1) |->
                            IF k < NextDeferred THEN defers[k] ELSE defers[k + 1]]
            /\ pc' = pc
    /\ UNCHANGED <<out, calls, exitCode, branch, holder, finalizer, finRuns,
                   renderVars, memo, appendVars>>

(***************************************************************************)
(* The demos between the filesystem demo and the template demo.            *)
(***************************************************************************)
DemoBytesAndStringsIterators ==
    /\ Goto("DemoBytesAndStringsIterators", "DemoEncodingAppend")
    /\ Enter("DemoBytesAndStringsIterators")
    /\ Println(<<"Iterating over lines (using bytes.Split):",
                 "line1", "line2", "line3",
                 "Iterating over fields (using strings.Fields):",
                 "foo", "bar", "baz">>)
    /\ UNCHANGED <<exitCode, branch, holder, finalizer, finRuns, defers,
                   fsEvents, renderVars, memo, appendVars>>

\* fmt.Sprintf("%v", ds): the fallback text of a demoStruct.
FormatV(value) == <<"{">> \o Itoa(value) \o <<"}">>

\* The body of DemoEncodingAppend: the assertion, the chosen branch, the line.
EncodingAppendBody ==
    LET b == AssertBranch("demoStruct")
        buf == IF b = "appender" THEN AppendText(DemoStructValue, <<>>)
               ELSE <<>> \o FormatV(DemoStructValue)
    IN  /\ Took("DemoEncodingAppend", b)
        /\ aDst' = <<>>
        /\ aValue' = DemoStructValue
        /\ aResult' = buf
        /\ Println(<<"Encoding append result: " \o StrOf(buf)>>)

DemoEncodingAppend ==
    /\ Goto("DemoEncodingAppend", "DemoNetipEncoding")
    /\ Enter("DemoEncodingAppend")
    /\ EncodingAppendBody
    /\ UNCHANGED <<exitCode, holder, finalizer, finRuns, defers, fsEvents,
                   renderVars, memo>>

DemoNetipEncoding ==
    \E ok \in BOOLEAN :
        /\ Goto("DemoNetipEncoding", "DemoRegexpEncoding")
        /\ Enter("DemoNetipEncoding")
        /\ IF ok
           THEN /\ Took("DemoNetipEncoding", AssertBranch("netip.Addr"))
                /\ Println(<<"netip.Addr appended text: 192.0.2.1">>)
           ELSE /\ Took("DemoNetipEncoding", "parse_error")
                /\ Println(<<"Error parsing IP:">>)
        /\ UNCHANGED <<exitCode, holder, finalizer, finRuns, defers, fsEvents,
                       renderVars, memo, appendVars>>

DemoRegexpEncoding ==
    /\ Goto("DemoRegexpEncoding", "DemoRuntimeGOROOT")
    /\ Enter("DemoRegexpEncoding")
    /\ Took("DemoRegexpEncoding", AssertBranch("*regexp.Regexp"))
    /\ Println(<<"Regexp appended text: a*b">>)
    /\ UNCHANGED <<exitCode, holder, finalizer, finRuns, defers, fsEvents,
                   renderVars, memo, appendVars>>

DemoRuntimeGOROOT ==
    /\ Goto("DemoRuntimeGOROOT", "DemoTextTemplate")
    /\ Enter("DemoRuntimeGOROOT")
    /\ Println(<<"Note: runtime.GOROOT is deprecated; use 'go env GOROOT' instead.">>)
    /\ UNCHANGED <<exitCode, branch, holder, finalizer, finRuns, defers,
                   fsEvents, renderVars, memo, appendVars>>

(***************************************************************************)
(* DemoTextTemplate.                                                       *)
(***************************************************************************)
DemoTextTemplate ==
    \E parsed \in BOOLEAN, exhaust \in ExhaustOutcomes :
        /\ Running /\ pc = "DemoTextTemplate"
        /\ Enter("DemoTextTemplate")
        /\ IF parsed
           THEN /\ Rendered(SeqStart, SeqEnd, exhaust)
                /\ Took("DemoTextTemplate", rOutcome')
                /\ IF rOutcome' = "oom"
                   THEN /\ pc' = "done"
                        /\ exitCode' = 2
                        /\ UNCHANGED out
                   ELSE /\ pc' = "DemoMathBigEncoding"
                        /\ Println(<<TemplateLine(rOutcome', tplOutput')>>)
                        /\ UNCHANGED exitCode
           ELSE /\ Took("DemoTextTemplate", "parse_error")
                /\ Println(<<"Error parsing template:">>)
                /\ pc' = "DemoMathBigEncoding"
                /\ UNCHANGED <<exitCode, renderVars>>
        /\ UNCHANGED <<holder, finalizer, finRuns, defers, fsEvents, memo,
                       appendVars>>

(***************************************************************************)
(* The demos after the template demo, and the end of main.                 *)
(***************************************************************************)
DemoMathBigEncoding ==
    /\ Goto("DemoMathBigEncoding", "DemoMathRand")
    /\ Enter("DemoMathBigEncoding")
    /\ Took("DemoMathBigEncoding", AssertBranch("*big.Int"))
    /\ Println(<<"big.Int appended text: 12345678901234567890">>)
    /\ UNCHANGED <<exitCode, holder, finalizer, finRuns, defers, fsEvents,
                   renderVars, memo, appendVars>>

DemoMathRand ==
    /\ Goto("DemoMathRand", "DemoSyncMap")
    /\ Enter("DemoMathRand")
    /\ Println(<<"Random number (rand.New):">>)
    /\ UNCHANGED <<exitCode, branch, holder, finalizer, finRuns, defers,
                   fsEvents, renderVars, memo, appendVars>>

\* m.Range visits the two entries in an order sync.Map does not fix.
DemoSyncMap ==
    \E first \in {"key1", "key2"} :
        /\ Goto("DemoSyncMap", "DemoSlog")
        /\ Enter("DemoSyncMap")
        /\ Println(<<"Iterating over sync.Map:">> \o
                   (IF first = "key1"
                    THEN <<"  key=key1, value=100", "  key=key2, value=200">>
                    ELSE <<"  key=key2, value=200", "  key=key1, value=100">>))
        /\ UNCHANGED <<exitCode, branch, holder, finalizer, finRuns, defers,
                       fsEvents, renderVars, memo, appendVars>>

DemoSlog ==
    /\ Goto("DemoSlog", "line16")
    /\ Enter("DemoSlog")
    /\ Println(<<"slog.DiscardHandler demo: In production, a DiscardHandler would discard logs.">>)
    /\ UNCHANGED <<exitCode, branch, holder, finalizer, finRuns, defers,
                   fsEvents, renderVars, memo, appendVars>>

MainTemplateRangeLine ==
    /\ Goto("line16", "DemoTimeEncoding")
    /\ Println(<<"Text Template Range Demo: Not implemented">>)
    /\ UNCHANGED <<calls, exitCode, branch, holder, finalizer, finRuns, defers,
                   fsEvents, renderVars, memo, appendVars>>

\* The appender writes RFC 3339 text, now.String() the default layout.
DemoTimeEncoding ==
    LET b == AssertBranch("time.Time") IN
    /\ Goto("DemoTimeEncoding", "DemoSynctest")
    /\ Enter("DemoTimeEncoding")
    /\ Took("DemoTimeEncoding", b)
    /\ Println(<<IF b = "appender" THEN "time.Time appended text: <RFC 3339>"
                 ELSE "time.Time appended text: <String()>">>)
    /\ UNCHANGED <<exitCode, holder, finalizer, finRuns, defers, fsEvents,
                   renderVars, memo, appendVars>>

DemoSynctest ==
    /\ Goto("DemoSynctest", "DemoGoTypesIterators")
    /\ Enter("DemoSynctest")
    /\ Println(<<"Experimental synctest demo: See tests built with GOEXPERIMENT=synctest for usage.">>)
    /\ UNCHANGED <<exitCode, branch, holder, finalizer, finRuns, defers,
                   fsEvents, renderVars, memo, appendVars>>

DemoGoTypesIterators ==
    /\ Goto("DemoGoTypesIterators", "DemoMaphashComparable")
    /\ Enter("DemoGoTypesIterators")
    /\ Println(<<"go/types iterator demonstration: Use the Variables() method on tuples, etc.">>)
    /\ UNCHANGED <<exitCode, branch, holder, finalizer, finRuns, defers,
                   fsEvents, renderVars, memo, appendVars>>

DemoMaphashComparable ==
    /\ Goto("DemoMaphashComparable", "end")
    /\ Enter("DemoMaphashComparable")
    /\ Println(<<"Hash for key \"myKey\":">>)
    /\ UNCHANGED <<exitCode, branch, holder, finalizer, finRuns, defers,
                   fsEvents, renderVars, memo, appendVars>>

MainEndBanner ==
    /\ Goto("end", "return")
    /\ Println(<<ClosingBanner>>)
    /\ UNCHANGED <<calls, exitCode, branch, holder, finalizer, finRuns, defers,
                   fsEvents, renderVars, memo, appendVars>>

\* main returns: the process exits with code 0, whatever the finalizer did.
MainReturn ==
    /\ Running /\ pc = "return"
    /\ pc' = "done"
    /\ exitCode' = 0
    /\ UNCHANGED <<out, calls, branch, holder, finalizer, finRuns, defers,
                   fsEvents, renderVars, memo, appendVars>>

(***************************************************************************)
(* The program: main's steps and the finalizer goroutine.                  *)
(***************************************************************************)
NoMemo == [called |-> FALSE]

InitMain ==
    /\ pc = "main"
    /\ out = <<>>
    /\ calls = <<>>
    /\ exitCode = -1
    /\ branch = [d \in Demos |-> ""]
    /\ holder = "unset"
    /\ finalizer = "none"
    /\ finRuns = 0
    /\ defers = <<>>
    /\ fsEvents = <<>>

InitRender ==
    /\ rStart = 0
    /\ rEnd = 0
    /\ rOutcome = "none"
    /\ tplOutput = <<>>
    /\ seqIters = 0
    /\ seqCap = 0
    /\ memo = NoMemo

InitAppend ==
    /\ aDst = <<>>
    /\ aValue = 0
    /\ aResult = <<>>

Init == InitMain /\ InitRender /\ InitAppend

MainStep ==
    \/ MainBanner
    \/ demoGenericTypeAlias
    \/ MainCgoLine
    \/ FinNew
    \/ FinSetFinalizer
    \/ FinDropRef
    \/ FinGC
    \/ FinSleep
    \/ DemoCryptoPackages
    \/ FsMkdirTemp
    \/ FsWriteFile
    \/ FsOpen
    \/ FsReaddir
    \/ FsReturn
    \/ DemoBytesAndStringsIterators
    \/ DemoEncodingAppend
    \/ DemoNetipEncoding
    \/ DemoRegexpEncoding
    \/ DemoRuntimeGOROOT
    \/ DemoTextTemplate
    \/ DemoMathBigEncoding
    \/ DemoMathRand
    \/ DemoSyncMap
    \/ DemoSlog
    \/ MainTemplateRangeLine
    \/ DemoTimeEncoding
    \/ DemoSynctest
    \/ DemoGoTypesIterators
    \/ DemoMaphashComparable
    \/ MainEndBanner
    \/ MainReturn

Next == MainStep \/ RunFinalizer

Spec == Init /\ [][Next]_vars

\* The main goroutine is always scheduled; nothing promises that a finalizer runs.
FairSpec == Spec /\ WF_vars(MainStep)

(***************************************************************************)
(* Harness for the template: one execution on every pair of integers.      *)
(***************************************************************************)
\* A call of the template with arguments (start, end) in a live process.  A
\* remembered execution notes that a call on other arguments came after it.
RenderCall(start, end) ==
    \E exhaust \in ExhaustOutcomes :
        /\ rOutcome # "oom"
        /\ Rendered(start, end, exhaust)
        /\ memo' = IF memo.called /\ <<memo.start, memo.end>> # <<start, end>>
                   THEN [memo EXCEPT !.between = TRUE]
                   ELSE memo
        /\ UNCHANGED <<mainVars, appendVars>>

InitRenderInputs ==
    /\ InitMain /\ InitAppend
    /\ rStart \in IntRange
    /\ rEnd \in IntRange
    /\ rOutcome = "none"
    /\ tplOutput = <<>>
    /\ seqIters = 0
    /\ seqCap = 0
    /\ memo = NoMemo

RenderOnce == rOutcome = "none" /\ RenderCall(rStart, rEnd)

SpecRender == InitRenderInputs /\ [][RenderOnce]_vars

(***************************************************************************)
(* Harness for repeated executions: any number of calls, one remembered.   *)
(***************************************************************************)
ProbeInputs == {IntMin, IntMax} \cup ((-ProbeMax)..ProbeMax)

RenderAny == \E start \in ProbeInputs, end \in ProbeInputs : RenderCall(start, end)

\* Keep the execution that just returned, to compare later ones with it.
Remember ==
    /\ rOutcome \in {"ok", "error"}
    /\ memo' = [called |-> TRUE, start |-> rStart, end |-> rEnd,
                outcome |-> rOutcome, output |-> tplOutput, between |-> FALSE]
    /\ UNCHANGED <<mainVars, renderVars, appendVars>>

NextRepeat == RenderAny \/ Remember

SpecRepeat == Init /\ [][NextRepeat]_vars

(***************************************************************************)
(* Harness for demoStruct.AppendText and DemoEncodingAppend.               *)
(***************************************************************************)
ByteInputs == {"x", "(", "7"}
DstInputs == UNION {[1..n -> ByteInputs] : n \in 0..DstMaxLen}
ValueInputs == ((-ValMax)..ValMax) \cup {DemoStructValue}

InitEncoding ==
    /\ InitMain /\ InitRender
    /\ aDst \in DstInputs
    /\ aValue \in ValueInputs
    /\ aResult = <<>>

\* demoStruct{Value: aValue}.AppendText(aDst)
AppendTextCall ==
    /\ aResult = <<>>
    /\ aResult' = AppendText(aValue, aDst)
    /\ UNCHANGED <<mainVars, renderVars, memo, aDst, aValue>>

\* A direct call of DemoEncodingAppend.
CallDemoEncodingAppend ==
    /\ branch["DemoEncodingAppend"] = ""
    /\ EncodingAppendBody
    /\ UNCHANGED <<pc, calls, exitCode, holder, finalizer, finRuns, defers,
                   fsEvents, renderVars, memo>>

NextEncoding == AppendTextCall \/ CallDemoEncodingAppend

SpecEncoding == InitEncoding /\ [][NextEncoding]_vars

(***************************************************************************)
(* Reading text back: used by the properties, not by the program.          *)
(***************************************************************************)
IsDigit(c) == c \in {"0", "1", "2", "3", "4", "5", "6", "7", "8", "9"}

DigitVal(c) ==
    CASE c = "0" -> 0 [] c = "1" -> 1 [] c = "2" -> 2 [] c = "3" -> 3
      [] c = "4" -> 4 [] c = "5" -> 5 [] c = "6" -> 6 [] c = "7" -> 7
      [] c = "8" -> 8 [] c = "9" -> 9

RECURSIVE DigitsVal(_, _)
DigitsVal(ds, acc) ==
    IF ds = <<>> THEN acc ELSE DigitsVal(Tail(ds), 10 * acc + DigitVal(ds[1]))

\* chars is the canonical decimal numeral of n: an optional minus sign (only
\* for a negative n), then digits with no leading zero.
IsDecimalOf(chars, n) ==
    LET neg == chars # <<>> /\ chars[1] = "-"
        ds == IF neg THEN Tail(chars) ELSE chars
    IN  /\ ds # <<>>
        /\ \A k \in 1..Len(ds) : IsDigit(ds[k])
        /\ Len(ds) > 1 => ds[1] # "0"
        /\ neg <=> n < 0
        /\ (IF neg THEN -DigitsVal(ds, 0) ELSE DigitsVal(ds, 0)) = n

IsPrefixOf(p, t) == Len(p) <= Len(t) /\ SubSeq(t, 1, Len(p)) = p

Drop(t, n) == SubSeq(t, n + 1, Len(t))

\* The tokens of a text in which every token is followed by one space; the
\* text is well formed when nothing is left after the last space.
RECURSIVE TokensOf(_, _, _)
TokensOf(t, cur, acc) ==
    IF t = <<>> THEN [tokens |-> acc, rest |-> cur]
    ELSE IF t[1] = " " THEN TokensOf(Tail(t), <<>>, Append(acc, cur))
    ELSE TokensOf(Tail(t), Append(cur, t[1]), acc)

Positions(line) == {k \in 1..Len(out) : out[k] = line}
Printed(line) == Positions(line) # {}
Occurrences(seq, e) == Cardinality({k \in 1..Len(seq) : seq[k] = e})

(***************************************************************************)
(* C1.  For all integers a <= b, rendering (a, b) with prefix "Numbers: "  *)
(* and separator " " yields the prefix followed by exactly b-a+1 numeric   *)
(* tokens a, a+1, ..., b in ascending order, each followed by one          *)
(* separator.  Stated of every execution of the template on a pair with    *)
(* start <= end; the seq helper's loop and capacity break it at the edges  *)
(* of the integer range.                                                   *)
(***************************************************************************)
C1_RenderAscendingRange ==
    (rOutcome # "none" /\ rStart <= rEnd) =>
        /\ rOutcome = "ok"
        /\ IsPrefixOf(<<"N", "u", "m", "b", "e", "r", "s", ":", " ">>, tplOutput)
        /\ LET p == TokensOf(Drop(tplOutput, 9), <<>>, <<>>) IN
           /\ p.rest = <<>>
           /\ Len(p.tokens) = rEnd - rStart + 1
           /\ \A k \in 1..Len(p.tokens) : IsDecimalOf(p.tokens[k], rStart + k - 1)

(***************************************************************************)
(* C2.  For all integers a > b, rendering (a, b) completes without error   *)
(* or panic and the output is exactly "Numbers: ".  The capacity           *)
(* expression is negative when a > b + 1 and make panics.                  *)
(***************************************************************************)
C2_ReversedRangeIsEmpty ==
    (rOutcome # "none" /\ rStart > rEnd) =>
        /\ rOutcome = "ok"
        /\ StrOf(tplOutput) = "Numbers: "

C6_SeqLoopCount ==
    (rOutcome # "none" /\ rStart <= rEnd) =>
        /\ rOutcome = "ok"
        /\ seqIters = rEnd - rStart + 1
        /\ seqCap = rEnd - rStart + 1
        /\ seqCap >= 0

(***************************************************************************)
(* C9.  AppendText(dst) returns dst unchanged as a prefix followed by      *)
(* exactly "demoStruct(<decimal Value>)"; DemoEncodingAppend takes the     *)
(* appender branch and prints "Encoding append result: demoStruct(123)".   *)
(***************************************************************************)
C9_AppendTextFrame ==
    /\ aResult # <<>> =>
          /\ IsPrefixOf(aDst, aResult)
          /\ LET added == Drop(aResult, Len(aDst)) IN
             /\ Len(added) >= 13
             /\ StrOf(SubSeq(added, 1, 11)) = "demoStruct("
             /\ added[Len(added)] = ")"
             /\ IsDecimalOf(SubSeq(added, 12, Len(added) - 1), aValue)
    /\ branch["DemoEncodingAppend"] # "" =>
          /\ branch["DemoEncodingAppend"] = "appender"
          /\ out # <<>>
          /\ out[Len(out)] = "Encoding append result: demoStruct(123)"

\* AppendText has been called on a non-empty dst with a negative two-digit value.
C9_Witness ==
    /\ Len(aDst) = 2
    /\ aValue = -12
    /\ Len(aResult) = 17

\* What holds of main's calls and output at every moment of a run.
C4_InOrder ==
    /\ Len(calls) <= Len(MainOrder)
    /\ \A k \in 1..Len(calls) : calls[k] = MainOrder[k]
    /\ out # <<>> => out[1] = OpeningBanner
    /\ calls # <<>> => out # <<>>
    /\ Printed(ClosingBanner) => calls = MainOrder
    /\ exitCode # -1 => /\ exitCode = 0
                        /\ calls = MainOrder
                        /\ Printed(ClosingBanner)

(***************************************************************************)
(* C4.  Every run of main prints the opening banner first, invokes each    *)
(* demo function exactly once in the order written in main, and always     *)
(* reaches the closing banner and exit code 0, whatever error branch a     *)
(* demo takes: the demo only prints and returns and the later demos run.   *)
(***************************************************************************)
C4_MainRunsEveryDemo ==
    /\ [](C4_InOrder)
    /\ <>(pc = "done" /\ exitCode = 0 /\ Printed(ClosingBanner))

\* A run that took an error branch in every demo that has one, and finished.
C4_Witness ==
    /\ pc = "done"
    /\ exitCode = 0
    /\ branch["DemoCryptoPackages"] = "error"
    /\ branch["DemoDirectoryLimitedFS"] = "open_error"
    /\ branch["DemoNetipEncoding"] = "parse_error"
    /\ branch["DemoTextTemplate"] = "parse_error"
    /\ calls = MainOrder

(***************************************************************************)
(* C5.  A successful run of the crypto demo prints three result lines in   *)
(* this order: "Derived key (HKDF)", "Derived key (PBKDF2)", "SHA3-256     *)
(* digest", after the generic-type-alias line and before the "Files in     *)
(* limited FS:" line.  The function prints no HKDF line.                   *)
(***************************************************************************)
C5_CryptoLinesAsReadme ==
    branch["DemoCryptoPackages"] = "ok" =>
        \E g \in Positions("Generic Type Alias (MySlice[int]): [1 2 3 4 5]"),
           h \in Positions("Derived key (HKDF):"),
           p \in Positions("Derived key (PBKDF2):"),
           d \in Positions("SHA3-256 digest:") :
            /\ g < h /\ h < p /\ p < d
            /\ \A f \in Positions("Files in limited FS:") : d < f

\* DemoDirectoryLimitedFS was called and has returned, deferred calls included.
FsReturned ==
    /\ Occurrences(calls, "DemoDirectoryLimitedFS") > 0
    /\ pc \notin {"fs_write", "fs_open", "fs_readdir", "fs_return"}

(***************************************************************************)
(* C7.  In DemoDirectoryLimitedFS, once the temporary directory has been   *)
(* created every exit path removes it, and a directory handle that was     *)
(* opened is closed before the directory is removed; if creating the       *)
(* directory fails nothing is removed or closed.                           *)
(***************************************************************************)
C7_TempDirReleased ==
    /\ Occurrences(fsEvents, "RemoveAll") <= 1
    /\ Occurrences(fsEvents, "Close") <= 1
    /\ Occurrences(fsEvents, "Close") <= Occurrences(fsEvents, "Open")
    /\ Occurrences(fsEvents, "RemoveAll") <= Occurrences(fsEvents, "MkdirTemp")
    /\ \A r \in 1..Len(fsEvents) :
          fsEvents[r] = "RemoveAll" =>
              \A o \in 1..Len(fsEvents) :
                  fsEvents[o] = "Open" =>
                      \E c \in 1..Len(fsEvents) :
                          fsEvents[c] = "Close" /\ o < c /\ c < r
    /\ FsReturned =>
          /\ Occurrences(fsEvents, "RemoveAll") = Occurrences(fsEvents, "MkdirTemp")
          /\ Occurrences(fsEvents, "Close") = Occurrences(fsEvents, "Open")
          /\ branch["DemoDirectoryLimitedFS"] = "mkdir_error" => fsEvents = <<>>
          /\ branch["DemoDirectoryLimitedFS"] # "mkdir_error" =>
                fsEvents[Len(fsEvents)] = "RemoveAll"

\* The function returned after a failed Readdir: the handle was closed, then
\* the directory removed.
C7_Witness ==
    /\ FsReturned
    /\ branch["DemoDirectoryLimitedFS"] = "readdir_error"
    /\ fsEvents = <<"MkdirTemp", "WriteFile", "Open", "Close", "RemoveAll">>

(***************************************************************************)
(* C8.  In DemoNetipEncoding, DemoRegexpEncoding, DemoMathBigEncoding and  *)
(* DemoTimeEncoding the value satisfies the asserted interface, so the     *)
(* appender branch is taken and the String() fallback never is.  The       *)
(* asserted method returns only a byte slice; the values' AppendText       *)
(* returns a byte slice and an error.                                      *)
(***************************************************************************)
C8_AppenderBranchTaken ==
    \A d \in {"DemoNetipEncoding", "DemoRegexpEncoding", "DemoMathBigEncoding",
              "DemoTimeEncoding"} :
        branch[d] \notin {"", "parse_error"} => branch[d] = "appender"

\* The finalizer ran at most once, after holder = nil, printing one line per run.
C10_FinalizerSafe ==
    /\ finRuns <= 1
    /\ Cardinality(Positions(FinalizerLine)) = finRuns
    /\ finRuns > 0 => holder = "nil" /\ finalizer = "ran"
    /\ \A k \in Positions(FinalizerLine) :
          \E c \in Positions("CGO Improvements Demo: Not implemented") : c < k

(***************************************************************************)
(* C10.  The finalizer runs at most once per run and only after the holder *)
(* reference has been set to nil; its line may appear at any later point   *)
(* of the output or never, and in every interleaving main runs all the     *)
(* remaining demos and reaches the closing banner.                         *)
(***************************************************************************)
C10_FinalizerNeverBlocksMain ==
    /\ [](C10_FinalizerSafe)
    /\ <>(pc = "done" /\ calls = MainOrder /\ Printed(ClosingBanner))

\* The finalizer's line came out after the closing banner, just before exit.
C10_Witness ==
    /\ pc = "done"
    /\ finRuns = 1
    /\ out[Len(out)] = "Finalizer called for Holder with value: 42"
    /\ out[Len(out) - 1] = ClosingBanner

====
